---- MODULE Spec2Model ----
(***************************************************************************)
(* User-registration service: the express handlers of src/server.js, the   *)
(* Sequelize User model of src/user.js and the browser checks of           *)
(* src/script.js.                                                          *)
(*                                                                         *)
(* A JavaScript string is a sequence of one-character strings.  A value of *)
(* a request body is a record [t, v]: t is its JavaScript type and v its   *)
(* characters (the digits of a number, nothing for undefined).             *)
(***************************************************************************)
EXTENDS Integers, Sequences, FiniteSets, TLC

(***************************************************************************)
(* Characters                                                              *)
(***************************************************************************)
UpperSeq == <<"A","B","C","D","E","F","G","H","I","J","K","L","M",
              "N","O","P","Q","R","S","T","U","V","W","X","Y","Z">>

LowerSeq == <<"a","b","c","d","e","f","g","h","i","j","k","l","m",
              "n","o","p","q","r","s","t","u","v","w","x","y","z">>

DigitSeq == <<"0","1","2","3","4","5","6","7","8","9">>

Range(s) == { s[i] : i \in DOMAIN s }

Upper == Range(UpperSeq)

Lower == Range(LowerSeq)

Digit == Range(DigitSeq)

Letter == Upper \cup Lower

\* \s of the regular expressions and the characters String.prototype.trim strips
Whitespace == {" ", "\t", "\n", "\r"}

\* [!@#$%^&*(),.?":{}|<>] of validatePassword
ServerSpecial == {"!","@","#","$","%","^","&","*","(",")",",",".","?","\"",
                  ":","{","}","|","<",">"}

\* [<>'"] of sanitizeInput
Stripped == {"<", ">", "'", "\""}

(***************************************************************************)
(* String primitives                                                       *)
(***************************************************************************)
Str(s) == [t |-> "string", v |-> s]

Num(s) == [t |-> "number", v |-> s]

Undefined == [t |-> "undefined", v |-> <<>>]

IsString(x) == x.t = "string"

\* JavaScript truthiness of a body value: !x is TRUE for undefined, "" and 0
Truthy(x) ==
    \/ x.t = "string" /\ Len(x.v) > 0
    \/ x.t = "number" /\ x.v # <<"0">>

Take(s, n) == IF Len(s) <= n THEN s ELSE SubSeq(s, 1, n)

\* String.prototype.trim
Trim(s) ==
    LET keep == { i \in DOMAIN s : s[i] \notin Whitespace }
    IN  IF keep = {} THEN <<>>
        ELSE LET lo == CHOOSE i \in keep : \A j \in keep : i <= j
                 hi == CHOOSE i \in keep : \A j \in keep : j <= i
             IN  SubSeq(s, lo, hi)

ToLowerChar(c) ==
    IF c \in Upper
    THEN LowerSeq[CHOOSE i \in DOMAIN UpperSeq : UpperSeq[i] = c]
    ELSE c

\* String.prototype.toLowerCase
ToLowerCase(s) == [i \in DOMAIN s |-> ToLowerChar(s[i])]

NotStripped(c) == c \notin Stripped

\* sanitizeInput: a value that is no string is returned as it is
sanitizeInput(input) ==
    IF ~IsString(input) THEN input
    ELSE Str(Trim(SelectSeq(input.v, NotStripped)))

(***************************************************************************)
(* Validation helpers of the server                                        *)
(***************************************************************************)
UsernameMinLen == 3

UsernameMaxLen == 50

PasswordMinLen == 8

\* /^[a-zA-Z][a-zA-Z0-9_]*$/
UsernamePattern(s) ==
    /\ Len(s) >= 1
    /\ s[1] \in Letter
    /\ \A i \in DOMAIN s : s[i] \in Letter \cup Digit \cup {"_"}

validateUsername(username) ==
    IF ~Truthy(username) \/ ~IsString(username)
    THEN [valid |-> FALSE, message |-> "Username is required", value |-> <<>>]
    ELSE LET trimmedUsername == Trim(username.v)
         IN  IF Len(trimmedUsername) < UsernameMinLen
                \/ Len(trimmedUsername) > UsernameMaxLen
             THEN [valid |-> FALSE,
                   message |-> "Username must be 3-50 characters long",
                   value |-> <<>>]
             ELSE IF ~UsernamePattern(trimmedUsername)
             THEN [valid |-> FALSE,
                   message |-> "Username must start with a letter and contain only letters, numbers, and underscores",
                   value |-> <<>>]
             ELSE [valid |-> TRUE, message |-> "", value |-> trimmedUsername]

validatePassword(password) ==
    IF ~Truthy(password) \/ ~IsString(password)
    THEN [valid |-> FALSE, message |-> "Password is required", value |-> <<>>]
    ELSE IF Len(password.v) < PasswordMinLen
    THEN [valid |-> FALSE,
          message |-> "Password must be at least 8 characters long",
          value |-> <<>>]
    ELSE LET hasUppercase   == \E i \in DOMAIN password.v : password.v[i] \in Upper
             hasLowercase   == \E i \in DOMAIN password.v : password.v[i] \in Lower
             hasNumber      == \E i \in DOMAIN password.v : password.v[i] \in Digit
             hasSpecialChar == \E i \in DOMAIN password.v :
                                   password.v[i] \in ServerSpecial
         IN  IF ~hasUppercase \/ ~hasLowercase \/ ~hasNumber \/ ~hasSpecialChar
             THEN [valid |-> FALSE,
                   message |-> "Password must include uppercase, lowercase, number, and special character",
                   value |-> <<>>]
             ELSE [valid |-> TRUE, message |-> "", value |-> password.v]

\* /^[^\s@]+@[^\s@]+\.[^\s@]+$/
EmailPattern(s) ==
    /\ \A i \in DOMAIN s : s[i] \notin Whitespace
    /\ Cardinality({ i \in DOMAIN s : s[i] = "@" }) = 1
    /\ LET at == CHOOSE i \in DOMAIN s : s[i] = "@"
       IN  /\ at > 1
           /\ \E k \in DOMAIN s : /\ s[k] = "."
                                  /\ k > at + 1
                                  /\ k < Len(s)

validateEmail(email) ==
    IF ~Truthy(email) \/ ~IsString(email)
    THEN [valid |-> FALSE, message |-> "Email is required", value |-> <<>>]
    ELSE LET trimmedEmail == ToLowerCase(Trim(email.v))
         IN  IF ~EmailPattern(trimmedEmail)
             THEN [valid |-> FALSE, message |-> "Invalid email format",
                   value |-> <<>>]
             ELSE [valid |-> TRUE, message |-> "", value |-> trimmedEmail]

(***************************************************************************)
(* parseInt, as the delete handler uses it: radix 10, leading whitespace   *)
(* skipped, an optional sign, then the longest prefix of digits; NaN when  *)
(* there is none.  (The inputs of this model hold no 0x prefix.)           *)
(***************************************************************************)
DigitValue(c) == (CHOOSE i \in DOMAIN DigitSeq : DigitSeq[i] = c) - 1

RECURSIVE DigitsValue(_)
DigitsValue(s) ==
    IF s = <<>> THEN 0
    ELSE 10 * DigitsValue(SubSeq(s, 1, Len(s) - 1)) + DigitValue(s[Len(s)])

RECURSIVE SkipWhitespace(_)
SkipWhitespace(s) ==
    IF s # <<>> /\ s[1] \in Whitespace THEN SkipWhitespace(Tail(s)) ELSE s

RECURSIVE DigitPrefix(_)
DigitPrefix(s) ==
    IF s # <<>> /\ s[1] \in Digit THEN <<s[1]>> \o DigitPrefix(Tail(s)) ELSE <<>>

parseInt(s) ==
    LET t      == SkipWhitespace(s)
        signed == t # <<>> /\ t[1] \in {"+", "-"}
        digits == DigitPrefix(IF signed THEN Tail(t) ELSE t)
    IN  IF digits = <<>> THEN [nan |-> TRUE, n |-> 0]
        ELSE [nan |-> FALSE,
              n   |-> IF signed /\ t[1] = "-" THEN 0 - DigitsValue(digits)
                      ELSE DigitsValue(digits)]

(***************************************************************************)
(* bcrypt.  A hash is the string "$2b$10$" salt digest; the digest is a    *)
(* one-way function of the salt and of the first 72 bytes of the data, the *)
(* bytes after them taking no part in it.  The model writes the hash as    *)
(* the sequence <<prefix, salt>> \o the bytes the digest depends on.       *)
(***************************************************************************)
BcryptMaxBytes == 72

BcryptPrefix == "$2b$10$"

\* bcrypt.genSalt(10) draws a random salt: the model names it after the
\* logical time of the draw, so that no two draws give the same salt
genSalt(time) == ToString(time)

bcryptHash(data, salt) == <<BcryptPrefix, salt>> \o Take(data, BcryptMaxBytes)

IsBcryptHash(s) == Len(s) >= 2 /\ s[1] = BcryptPrefix

\* bcrypt.compare(data, hash) with both arguments strings
bcryptCompare(data, hash) == IsBcryptHash(hash) /\ hash = bcryptHash(data, hash[2])

(***************************************************************************)
(* The User model (src/user.js): field validators, hooks, checkPassword    *)
(***************************************************************************)
StoreUsernameMinLen == 3

StoreUsernameMaxLen == 50

StorePasswordMinLen == 8

StorePasswordMaxLen == 255

\* validator.js isAlphanumeric (en-US): /^[0-9A-Z]+$/i
isAlphanumeric(s) == Len(s) >= 1 /\ \A i \in DOMAIN s : s[i] \in Letter \cup Digit

\* validator.js isEmail with its defaults: one @, a local part of atoms, a
\* domain of dot-separated labels whose last one (the TLD) is two or more letters
isEmail(s) ==
    /\ Cardinality({ i \in DOMAIN s : s[i] = "@" }) = 1
    /\ LET at   == CHOOSE i \in DOMAIN s : s[i] = "@"
           dots == { i \in DOMAIN s : i > at /\ s[i] = "." }
       IN  /\ at > 1
           /\ \A i \in 1..(at - 1) :
                  s[i] \in Letter \cup Digit \cup {".", "_", "-", "+"}
           /\ s[1] # "." /\ s[at - 1] # "."
           /\ \A i \in (at + 1)..Len(s) : s[i] \in Letter \cup Digit \cup {".", "-"}
           /\ dots # {}
           /\ \A i \in dots : i > at + 1 /\ i < Len(s) /\ (i + 1) \notin dots
           /\ LET last == CHOOSE i \in dots : \A j \in dots : j <= i
              IN  /\ Len(s) - last >= 2
                  /\ \A i \in (last + 1)..Len(s) : s[i] \in Letter

\* the messages of the validators that fail, in the order of the model definition
UsernameErrors(username) ==
    (IF Len(username) < StoreUsernameMinLen \/ Len(username) > StoreUsernameMaxLen
     THEN <<"Username must be between 3 and 50 characters">> ELSE <<>>)
    \o (IF ~isAlphanumeric(username)
        THEN <<"Username can only contain letters and numbers">> ELSE <<>>)
    \o (IF username = <<>> THEN <<"Username cannot be empty">> ELSE <<>>)

EmailErrors(email) ==
    (IF ~isEmail(email) THEN <<"Must be a valid email address">> ELSE <<>>)
    \o (IF email = <<>> THEN <<"Email cannot be empty">> ELSE <<>>)

PasswordErrors(password) ==
    (IF Len(password) < StorePasswordMinLen \/ Len(password) > StorePasswordMaxLen
     THEN <<"Password must be at least 8 characters">> ELSE <<>>)
    \o (IF password = <<>> THEN <<"Password cannot be empty">> ELSE <<>>)

\* instance.validate(): runs before the hooks, on the values as they were set
ModelErrors(values) ==
    UsernameErrors(values.username) \o EmailErrors(values.email)
        \o PasswordErrors(values.password)

\* mutant: the hook leaves the password as it was submitted
beforeCreateKeepsPlaintext(values, salt) == values

\* hooks.beforeCreate: the password of the instance is replaced by its hash
beforeCreate(values, salt) ==
    IF values.password # <<>>
    THEN [values EXCEPT !.password = bcryptHash(values.password, salt)]
    ELSE values

\* mutant: the hook hashes on every save
beforeUpdateAlwaysHashes(values, changedPassword, salt) ==
    [values EXCEPT !.password = bcryptHash(values.password, salt)]

\* hooks.beforeUpdate: the password is hashed when user.changed('password')
beforeUpdate(values, changedPassword, salt) ==
    IF changedPassword
    THEN [values EXCEPT !.password = bcryptHash(values.password, salt)]
    ELSE values

\* User.prototype.checkPassword; bcrypt throws when the data is no string
checkPassword(user, password) ==
    IF ~IsString(password) THEN "throws"
    ELSE IF bcryptCompare(password.v, user.password) THEN "match"
    ELSE "mismatch"

\* mutant: the table has no unique index
NoUniqueIndex(table, values) == FALSE

\* the unique indexes on username and on email
UniqueViolation(table, values) ==
    \E u \in table : u.username = values.username \/ u.email = values.email

(***************************************************************************)
(* The checks of the browser form (src/script.js).  validateField runs on  *)
(* every input event of a field, validateForm when the form is submitted.  *)
(***************************************************************************)
FormUsernameMinLen == 3

FormUsernameMaxLen == 30

FormPasswordMinLen == 6

FormPasswordMaxLen == 100

\* [!@#$%^&*()_+\-=\[\]{};':"\\|,.<>\/?] of the browser checks
FormSpecial == {"!","@","#","$","%","^","&","*","(",")","_","+","-","=",
                "[","]","{","}",";","'",":","\"","\\","|",",",".","<",">",
                "/","?"}

\* /^[a-zA-Z0-9_]+$/
FormUsernameChars(s) ==
    Len(s) >= 1 /\ \A i \in DOMAIN s : s[i] \in Letter \cup Digit \cup {"_"}

\* /^[a-zA-Z]/
StartsWithLetter(s) == Len(s) >= 1 /\ s[1] \in Letter

\* /(.)\1\1/: the dot matches no line terminator
Tripled(s) ==
    \E i \in 1..(Len(s) - 2) :
        s[i] = s[i + 1] /\ s[i] = s[i + 2] /\ s[i] \notin {"\n", "\r"}

\* the else-if chain of the username that validateField and validateForm
\* share, from the minimum length on: the message, "" when no branch is taken
UsernameChain(value) ==
    IF Len(value) < FormUsernameMinLen
    THEN "Username must be at least 3 characters long"
    ELSE IF Len(value) > FormUsernameMaxLen
    THEN "Username cannot exceed 30 characters"
    ELSE IF ~FormUsernameChars(value)
    THEN "Username can only contain letters, numbers, and underscores"
    ELSE IF ~StartsWithLetter(value)
    THEN "Username must start with a letter"
    ELSE ""

\* the else-if chain of the password, from the minimum length on
PasswordChain(value) ==
    IF Len(value) < FormPasswordMinLen
    THEN "Password must be at least 6 characters long"
    ELSE IF Len(value) > FormPasswordMaxLen
    THEN "Password cannot exceed 100 characters"
    ELSE IF ~\E i \in DOMAIN value : value[i] \in Lower
    THEN "Password must contain at least one lowercase letter"
    ELSE IF ~\E i \in DOMAIN value : value[i] \in Upper
    THEN "Password must contain at least one uppercase letter"
    ELSE IF ~\E i \in DOMAIN value : value[i] \in Digit
    THEN "Password must contain at least one number"
    ELSE IF ~\E i \in DOMAIN value : value[i] \in FormSpecial
    THEN "Password must contain at least one special character"
    ELSE IF Tripled(value)
    THEN "Password cannot contain three identical characters in a row"
    ELSE ""

\* validateField(fieldName, value): what it returns, the class it gives the
\* field and the text it gives the error span of the field
validateField(fieldName, value) ==
    LET errorMessage == IF Len(value) = 0 THEN ""    \* no error if empty
                        ELSE IF fieldName = "username" THEN UsernameChain(value)
                        ELSE PasswordChain(value)
        isValid == errorMessage = ""
    IN  [isValid      |-> isValid,
         errorMessage |-> errorMessage,
         class        |-> IF ~isValid /\ Len(value) > 0 THEN "error"
                          ELSE IF isValid /\ Len(value) > 0 THEN "success"
                          ELSE "",
         errorSpan    |-> IF ~isValid /\ Len(value) > 0 THEN errorMessage ELSE ""]

\* validateForm: the messages it pushes for the username field, whose value
\* it trims
FormUsernameErrors(value) ==
    LET username == Trim(value)
    IN  IF username = <<>> THEN <<"Username is required">>
        ELSE IF UsernameChain(username) # "" THEN <<UsernameChain(username)>>
        ELSE <<>>

\* validateForm: the messages it pushes for the password field
FormPasswordErrors(password) ==
    IF password = <<>> THEN <<"Password is required">>
    ELSE IF PasswordChain(password) # "" THEN <<PasswordChain(password)>>
    ELSE <<>>

\* validateForm on the values of the two fields: what it returns, the
\* messages it shows and the class it gives each field
validateForm(usernameValue, passwordValue) ==
    LET errorMessages == FormUsernameErrors(usernameValue)
                             \o FormPasswordErrors(passwordValue)
    IN  [isValid       |-> errorMessages = <<>>,
         errorMessages |-> errorMessages,
         usernameClass |-> IF FormUsernameErrors(usernameValue) # <<>>
                           THEN "error" ELSE "",
         passwordClass |-> IF FormPasswordErrors(passwordValue) # <<>>
                           THEN "error" ELSE ""]

(***************************************************************************)
(* Request inputs                                                          *)
(***************************************************************************)
bob == <<"b","o","b">>

bobPadded == <<" ","b","o","b"," ">>

bobTagged == <<"<","b","o","b",">">>

amy == <<"a","m","y">>

a_b == <<"a","_","b">>

tooShort == <<"a","b">>

mailA == <<"a","@","b",".","c","o">>

mailAUpper == <<"A","@","B",".","C","O"," ">>

mailC == <<"c","@","d",".","c","o">>

mailShortTld == <<"e","@","f",".","g">>

mailNoAt == <<"a",".","b">>

pwGood == <<"A","b","c","d","e","f","1","!">>

pwOther == <<"A","b","c","d","e","f","1","?">>

pwWeak == <<"a","b","c","d","e","f","g","h">>

\* two passwords of 73 characters that differ in the last one only
pwLong == [i \in 1..(BcryptMaxBytes + 1) |->
              IF i = 1 THEN "A" ELSE IF i = 2 THEN "1" ELSE IF i = 3 THEN "!"
              ELSE "a"]

pwLongOther == [pwLong EXCEPT ![BcryptMaxBytes + 1] = "b"]

RegisterBodies ==
    { [username |-> Str(bob),       email |-> Str(mailA),        password |-> Str(pwGood)],
      [username |-> Str(bobPadded), email |-> Str(mailC),        password |-> Str(pwGood)],
      [username |-> Str(amy),       email |-> Str(mailAUpper),   password |-> Str(pwLong)],
      [username |-> Undefined,      email |-> Str(mailA),        password |-> Str(pwGood)],
      [username |-> Str(tooShort),  email |-> Str(mailA),        password |-> Str(pwGood)],
      [username |-> Str(a_b),       email |-> Str(mailC),        password |-> Str(pwGood)],
      [username |-> Str(amy),       email |-> Str(mailNoAt),     password |-> Str(pwGood)],
      [username |-> Str(amy),       email |-> Str(mailShortTld), password |-> Str(pwGood)],
      [username |-> Str(amy),       email |-> Str(mailC),        password |-> Str(pwWeak)] }

LoginBodies ==
    { [username |-> Str(bob),       password |-> Str(pwGood)],
      [username |-> Str(bob),       password |-> Str(pwOther)],
      [username |-> Str(bobTagged), password |-> Str(pwGood)],
      [username |-> Str(amy),       password |-> Str(pwLong)],
      [username |-> Str(amy),       password |-> Str(pwLongOther)],
      [username |-> Str(bob),       password |-> Str(<<>>)],
      [username |-> Str(bob),       password |-> Undefined],
      [username |-> Str(bob),       password |-> Num(<<"7">>)],
      [username |-> Num(<<"7">>),   password |-> Str(pwGood)] }

\* the :id segment of DELETE /api/users/:id
DeleteBodies ==
    { [id |-> <<"1">>], [id |-> <<"2">>], [id |-> <<"1","x">>], [id |-> <<"x">>] }

NoBody == [none |-> TRUE]

(***************************************************************************)
(* Inputs of the checks: strings around the lengths the checks compare     *)
(* with, of every mix of the character classes they look for               *)
(***************************************************************************)
\* how far past the longest length a check compares with the inputs go
MaxOver == 1

\* prefix, then the two characters of filler in turn, n characters in all
Fill(prefix, filler, n) ==
    [i \in 1..n |-> IF i <= Len(prefix) THEN prefix[i]
                    ELSE filler[1 + ((i - Len(prefix)) % 2)]]

UsernameLengths ==
    {FormUsernameMinLen, FormUsernameMaxLen, UsernameMaxLen}
        \cup { FormUsernameMaxLen + k : k \in 1..MaxOver }
        \cup { UsernameMaxLen + k : k \in 1..MaxOver }

UsernameInputs ==
    { <<>>, <<" ">>, <<" ", " ">>, <<"a">>, <<"a", "b">>, <<"_", "1">>,
      <<"!", "?">>, <<" ", "a", " ">>, <<" ", "a", "b", " ">>,
      <<"a", "b", "c", " ">>, <<"a", " ", "b">>, <<"3", "a", "b", "c">>,
      <<"_", "a", "b">>, <<"a", "b", "!">>, <<"<", "a", "b", ">">>,
      <<"a", "b", "c", "_", "1", "2", "3">>, bob, a_b }
        \cup { Fill(<<"a">>, <<"b", "c">>, n) : n \in UsernameLengths }
        \cup { Fill(<<"1">>, <<"b", "c">>, n) : n \in UsernameLengths }

PasswordLengths ==
    {1, FormPasswordMinLen - 1, FormPasswordMinLen, PasswordMinLen - 1,
     PasswordMinLen, FormPasswordMaxLen}
        \cup { FormPasswordMaxLen + k : k \in 1..MaxOver }

\* one character of each class in every combination, and one that only the
\* browser counts as special
PasswordPrefixes ==
    { <<>>, <<"A">>, <<"1">>, <<"!">>, <<"A", "1">>, <<"A", "!">>,
      <<"1", "!">>, <<"A", "1", "!">>, <<"A", "1", "_">>, <<" ", "A", "1", "!">> }

PasswordFillers == { <<"a", "b">>, <<"a", "a">>, <<"Z", "Y">>, <<"A", "1">> }

PasswordInputs ==
    { <<>>, pwGood, pwWeak,
      <<"a","b","c","d","e","f","g">>,
      <<"A","a","a","1","1","1","!","!">> }
        \cup { Fill(prefix, filler, n) : prefix \in PasswordPrefixes,
                                         filler \in PasswordFillers,
                                         n \in PasswordLengths }

\* the values of the two fields: every username with one password, every
\* password with one username, and both fields empty
CheckInputs ==
    { [username |-> u, password |-> pwGood] : u \in UsernameInputs }
        \cup { [username |-> bob, password |-> p] : p \in PasswordInputs }
        \cup { [username |-> <<>>, password |-> <<>>] }

\* no check was applied yet
NoChecks ==
    [username |-> <<>>, password |-> <<>>, validateUsername |-> {},
     validatePassword |-> {}, fieldUsername |-> {}, fieldPassword |-> {},
     validateForm |-> {}]

(***************************************************************************)
(* State                                                                   *)
(***************************************************************************)
\* ids the sequence of the users table hands out
MaxId == 2

\* logical time up to which rows are saved again
MaxTime == 3

\* two requests are handled at a time: a slot holds a request from its
\* arrival to the step after its response
Slots == {1, 2}

VARIABLES
    users,      \* the rows of the users table
    nextId,     \* the autoIncrement sequence of users.id
    now,        \* logical time: the writes of rows so far
    reqs,       \* per slot: the request handled there and how far its handler is
    process,    \* "running" or "exited"
    plainOf,    \* history: id of a stored user |-> the plaintext it was given
    destroyed,  \* history: the ids of the rows that were destroyed
    checks      \* a username and a password, and what each check returned for them

vars == <<users, nextId, now, reqs, process, plainOf, destroyed, checks>>

NoResponse ==
    [status |-> 0, success |-> FALSE, message |-> <<>>, users |-> <<>>,
     error |-> "", database |-> ""]

Idle ==
    [kind |-> "none", body |-> NoBody, pc |-> "idle", resp |-> NoResponse,
     user |-> {}, ops |-> 0, failed |-> FALSE, pre |-> {}, gone |-> FALSE,
     branch |-> ""]

Init ==
    /\ users = {}
    /\ nextId = 1
    /\ now = 1
    /\ reqs = [r \in Slots |-> Idle]
    /\ process = "running"
    /\ plainOf = <<>>
    /\ destroyed = {}
    /\ checks = NoChecks

\* a new request takes the first slot that handles none
Free(r) ==
    /\ process = "running"
    /\ reqs[r].pc \in {"idle", "done"}
    /\ \A q \in Slots : q < r => reqs[q].pc \notin {"idle", "done"}

At(r, kind, pc) ==
    /\ process = "running"
    /\ reqs[r].kind = kind
    /\ reqs[r].pc = pc

Arrive(kind, body, pc) ==
    [Idle EXCEPT !.kind = kind, !.body = body, !.pc = pc]

\* the slots after a step of the handler in slot r: a slot whose response was
\* sent is released by the next step of the server
Released == [q \in Slots |-> IF reqs[q].pc = "done" THEN Idle ELSE reqs[q]]

Handled(r, req) == [Released EXCEPT ![r] = req]

\* res.status(status).json({success, message[, error]}), the handler returns
Reply(req, status, message) ==
    [req EXCEPT !.pc = "done",
                !.resp = [status |-> status, success |-> FALSE,
                          message |-> message, users |-> <<>>, error |-> "",
                          database |-> ""]]

\* the catch block of a handler: 500 with the message of the error
ReplyError(req, message, error) ==
    [req EXCEPT !.pc = "done",
                !.resp = [status |-> 500, success |-> FALSE,
                          message |-> message, users |-> <<>>, error |-> error,
                          database |-> ""]]

ReplySuccess(req, status, message, objects) ==
    [req EXCEPT !.pc = "done",
                !.resp = [status |-> status, success |-> TRUE,
                          message |-> message, users |-> objects, error |-> "",
                          database |-> ""]]

\* a query was issued to the store
Issued(req) == [req EXCEPT !.ops = @ + 1]

\* the store failed to answer (connection lost, pool acquire timeout, ...)
StoreFailed(req) == [Issued(req) EXCEPT !.failed = TRUE]

ByUsername(table, username) == { u \in table : u.username = username }

(***************************************************************************)
(* The handlers.  A handler runs from one await to the next; the steps of  *)
(* a handler that touch nothing shared (the checks before the first query, *)
(* the hashing, the comparison of the password with the row that was read) *)
(* are taken together with the store operation they precede or follow.     *)
(***************************************************************************)

(***************************************************************************)
(* POST /api/register (POST /api/users dispatches to the same handler)     *)
(***************************************************************************)
sanitizedUsername(body) == sanitizeInput(Str(validateUsername(body.username).value)).v

sanitizedEmail(body) == sanitizeInput(Str(validateEmail(body.email).value)).v

\* mutant: the duplicate is reported as a validation failure
ConflictAsBadRequest(req) == Reply(req, 400, <<"Username or email already exists">>)

Conflict(req) == Reply(req, 409, <<"Username or email already exists">>)

\* User.findOne({where: {[Op.or]: [{username}, {email}]}})
FindExisting(table, username, email) ==
    { u \in table : u.username = username \/ u.email = email }

\* mutant: the lookup is issued before the checks are looked at
RegisterLookupFirst(r, body) ==
    /\ Free(r)
    /\ LET vUser == validateUsername(body.username)
           vEmail == validateEmail(body.email)
           vPass == validatePassword(body.password)
           req == Issued(Arrive("register", body, "create"))
       IN  IF ~vUser.valid THEN reqs' = Handled(r, Reply(req, 400, <<vUser.message>>))
           ELSE IF ~vEmail.valid
           THEN reqs' = Handled(r, Reply(req, 400, <<vEmail.message>>))
           ELSE IF ~vPass.valid
           THEN reqs' = Handled(r, Reply(req, 400, <<vPass.message>>))
           ELSE LET looked == [req EXCEPT
                                  !.pre = ByUsername(users, sanitizedUsername(body))]
                IN  reqs' = Handled(r,
                        IF FindExisting(users, sanitizedUsername(body),
                                        sanitizedEmail(body)) # {}
                        THEN [Conflict(looked) EXCEPT !.branch = "existingUser"]
                        ELSE looked)
    /\ UNCHANGED <<users, nextId, now, process, plainOf, destroyed, checks>>

\* the three checks, then the lookup, up to `if (existingUser)`
Register(r, body) ==
    /\ Free(r)
    /\ LET vUser == validateUsername(body.username)
           vEmail == validateEmail(body.email)
           vPass == validatePassword(body.password)
           req == Arrive("register", body, "create")
       IN  IF ~vUser.valid THEN reqs' = Handled(r, Reply(req, 400, <<vUser.message>>))
           ELSE IF ~vEmail.valid
           THEN reqs' = Handled(r, Reply(req, 400, <<vEmail.message>>))
           ELSE IF ~vPass.valid
           THEN reqs' = Handled(r, Reply(req, 400, <<vPass.message>>))
           ELSE \E ok \in BOOLEAN :
                  LET looked == [req EXCEPT
                                    !.pre = ByUsername(users, sanitizedUsername(body))]
                      existingUser == FindExisting(users, sanitizedUsername(body),
                                                   sanitizedEmail(body))
                  IN  reqs' = Handled(r,
                          IF ~ok THEN ReplyError(StoreFailed(looked),
                                                 <<"Error creating user">>, "store")
                          ELSE IF existingUser # {}
                          THEN [Conflict(Issued(looked)) EXCEPT !.branch = "existingUser"]
                          ELSE Issued(looked))
    /\ UNCHANGED <<users, nextId, now, process, plainOf, destroyed, checks>>

\* User.create: validate, beforeCreate, INSERT; then the 201 or the catch block
RegisterCreate(r) ==
    /\ At(r, "register", "create")
    /\ LET req == reqs[r]
           values == [username |-> sanitizedUsername(req.body),
                      email    |-> sanitizedEmail(req.body),
                      password |-> validatePassword(req.body.password).value]
           errors == ModelErrors(values)
       IN  IF errors # <<>>
           THEN /\ reqs' = Handled(r, [Reply(req, 400, errors)
                                          EXCEPT !.branch = "SequelizeValidationError"])
                /\ UNCHANGED <<users, nextId, now, plainOf>>
           ELSE /\ nextId <= MaxId
                /\ \E ok \in BOOLEAN :
                     IF ~ok
                     THEN /\ reqs' = Handled(r, ReplyError(StoreFailed(req),
                                                  <<"Error creating user">>, "store"))
                          /\ UNCHANGED <<users, nextId, now, plainOf>>
                     ELSE IF UniqueViolation(users, values)
                     THEN \* the sequence value is consumed by the failed INSERT
                          /\ reqs' = Handled(r, [Conflict(Issued(req)) EXCEPT
                                         !.branch = "SequelizeUniqueConstraintError"])
                          /\ nextId' = nextId + 1
                          /\ UNCHANGED <<users, now, plainOf>>
                     ELSE LET hashed == beforeCreate(values, genSalt(now))
                              newUser == [id |-> nextId,
                                          username |-> hashed.username,
                                          email |-> hashed.email,
                                          password |-> hashed.password,
                                          createdAt |-> now,
                                          updatedAt |-> now]
                          IN  /\ users' = users \cup {newUser}
                              /\ nextId' = nextId + 1
                              /\ now' = now + 1
                              /\ plainOf' = (newUser.id :> values.password) @@ plainOf
                              /\ reqs' = Handled(r,
                                     ReplySuccess(Issued(req), 201,
                                         <<"User registered successfully">>,
                                         <<[id |-> newUser.id,
                                            username |-> newUser.username,
                                            email |-> newUser.email,
                                            createdAt |-> newUser.createdAt]>>))
    /\ UNCHANGED <<process, destroyed, checks>>

(***************************************************************************)
(* GET /api/users                                                          *)
(***************************************************************************)
\* mutant: findAll without the exclusion
WholeRow(u) == u

\* attributes: {exclude: ['password']}
Public(u) ==
    [id |-> u.id, username |-> u.username, email |-> u.email,
     createdAt |-> u.createdAt, updatedAt |-> u.updatedAt]

\* order: [['createdAt', 'DESC']]
RECURSIVE NewestFirst(_)
NewestFirst(table) ==
    IF table = {} THEN <<>>
    ELSE LET newest == CHOOSE u \in table : \A w \in table : w.createdAt <= u.createdAt
         IN  <<newest>> \o NewestFirst(table \ {newest})

FindAll(table) == [i \in DOMAIN NewestFirst(table) |-> Public(NewestFirst(table)[i])]

ListUsers(r) ==
    /\ Free(r)
    /\ \E ok \in BOOLEAN :
         LET req == Arrive("list", NoBody, "findAll")
         IN  reqs' = Handled(r,
                 IF ok THEN ReplySuccess(Issued(req), 200, <<>>, FindAll(users))
                 ELSE ReplyError(StoreFailed(req), <<"Error fetching users">>, "store"))
    /\ UNCHANGED <<users, nextId, now, process, plainOf, destroyed, checks>>

(***************************************************************************)
(* POST /api/login                                                         *)
(***************************************************************************)
loginUsername(body) == sanitizeInput(Str(Trim(body.username.v))).v

\* `if (!user)`
UnauthorizedNoUser(req) ==
    [Reply(req, 401, <<"Invalid username or password">>) EXCEPT !.branch = "noUser"]

\* mutant: the answer says that the password, not the username, was wrong
UnauthorizedWrongPassword(req) ==
    [Reply(req, 401, <<"Incorrect password">>) EXCEPT !.branch = "noMatch"]

\* `if (!passwordMatch)`
UnauthorizedNoMatch(req) ==
    [Reply(req, 401, <<"Invalid username or password">>) EXCEPT !.branch = "noMatch"]

\* after `if (!user)`: user.checkPassword(password) and the answer
LoginVerify(req, user) ==
    LET passwordMatch == checkPassword(user, req.body.password)
    IN  IF passwordMatch = "throws"
        THEN ReplyError(req, <<"Login error">>, "data and hash must be strings")
        ELSE IF passwordMatch = "mismatch"
        THEN UnauthorizedNoMatch(req)
        ELSE ReplySuccess(req, 200, <<"Login successful">>,
                 <<[id |-> user.id, username |-> user.username,
                    email |-> user.email]>>)

Login(r, body) ==
    /\ Free(r)
    /\ LET req == Arrive("login", body, "findOne")
       IN  IF ~Truthy(body.username) \/ ~Truthy(body.password)
           THEN reqs' = Handled(r,
                    Reply(req, 400, <<"Username and password are required">>))
           ELSE IF ~IsString(body.username)
           THEN \* username.trim is not a function: the catch block
                reqs' = Handled(r, ReplyError(req, <<"Login error">>, "TypeError"))
           ELSE \E ok \in BOOLEAN :
                  LET user == ByUsername(users, loginUsername(body))
                      looked == [req EXCEPT !.pre = user, !.user = user]
                  IN  reqs' = Handled(r,
                          IF ~ok THEN ReplyError(StoreFailed(looked),
                                                 <<"Login error">>, "store")
                          ELSE IF user = {}
                          THEN UnauthorizedNoUser(Issued(looked))
                          ELSE LoginVerify(Issued(looked), CHOOSE u \in user : TRUE))
    /\ UNCHANGED <<users, nextId, now, process, plainOf, destroyed, checks>>

(***************************************************************************)
(* DELETE /api/users/:id                                                   *)
(***************************************************************************)
userId(body) == parseInt(body.id)

\* parseInt, isNaN, then User.findByPk, up to `if (!user)`
Delete(r, body) ==
    /\ Free(r)
    /\ LET req == Arrive("delete", body, "destroy")
       IN  IF userId(body).nan
           THEN reqs' = Handled(r, Reply(req, 400, <<"Invalid user ID">>))
           ELSE \E ok \in BOOLEAN :
                  LET user == { u \in users : u.id = userId(body).n }
                      looked == [req EXCEPT !.gone = userId(body).n \in destroyed,
                                            !.pre = user, !.user = user]
                  IN  reqs' = Handled(r,
                          IF ~ok THEN ReplyError(StoreFailed(looked),
                                                 <<"Error deleting user">>, "store")
                          ELSE IF user = {}
                          THEN [Reply(Issued(looked), 404, <<"User not found">>)
                                   EXCEPT !.branch = "noUser"]
                          ELSE Issued(looked))
    /\ UNCHANGED <<users, nextId, now, process, plainOf, destroyed, checks>>

\* mutant: DELETE FROM users with no WHERE clause
DestroyEveryRow(table, user) == {}

\* mutant: the row is kept
DestroyNothing(table, user) == table

\* DELETE FROM users WHERE id = user.id
DestroyRow(table, user) == { u \in table : u.id # user.id }

\* user.destroy(), then the 200
DeleteDestroy(r) ==
    /\ At(r, "delete", "destroy")
    /\ \E ok \in BOOLEAN :
         LET req == reqs[r]
             user == CHOOSE u \in req.user : TRUE
         IN  IF ~ok
             THEN /\ reqs' = Handled(r, ReplyError(StoreFailed(req),
                                          <<"Error deleting user">>, "store"))
                  /\ UNCHANGED <<users, plainOf, destroyed>>
             ELSE /\ users' = DestroyRow(users, user)
                  /\ destroyed' = destroyed \cup {user.id}
                  /\ plainOf' = [i \in DOMAIN plainOf \ {user.id} |-> plainOf[i]]
                  /\ reqs' = Handled(r,
                         ReplySuccess(Issued(req), 200,
                             <<"User deleted successfully">>,
                             <<[id |-> user.id, username |-> user.username]>>))
    /\ UNCHANGED <<nextId, now, process, checks>>

(***************************************************************************)
(* GET /api/health                                                         *)
(***************************************************************************)
\* sequelize.authenticate() returns a promise, which is truthy: the handler
\* answers at once and never awaits it
Health(r) ==
    /\ Free(r)
    /\ reqs' = Handled(r,
           [Issued(Arrive("health", NoBody, "authenticate")) EXCEPT
               !.resp = [status |-> 200, success |-> TRUE, message |-> <<"OK">>,
                         users |-> <<>>, error |-> "",
                         database |-> "Connected"]])
    /\ UNCHANGED <<users, nextId, now, process, plainOf, destroyed, checks>>

\* the promise settles; a rejection is handled by nobody, and an unhandled
\* rejection ends the process or only warns, by the version of node
HealthSettle(r) ==
    /\ At(r, "health", "authenticate")
    /\ \E ok \in BOOLEAN, exits \in BOOLEAN :
         IF ok
         THEN /\ reqs' = Handled(r, [reqs[r] EXCEPT !.pc = "done"])
              /\ UNCHANGED process
         ELSE /\ reqs' = Handled(r, [reqs[r] EXCEPT !.pc = "done", !.failed = TRUE])
              /\ process' = IF exits THEN "exited" ELSE "running"
    /\ UNCHANGED <<users, nextId, now, plainOf, destroyed, checks>>

(***************************************************************************)
(* instance.save() of a stored user, as a direct user of the model does it *)
(* (no handler of the server updates a row): the fields of `change` are    *)
(* set, the changed fields are validated, beforeUpdate runs, UPDATE.       *)
(***************************************************************************)
SaveChanges ==
    [email : {{}, {mailC}, {mailNoAt}}, password : {{}, {pwOther}, {pwWeak}}]
        \ {[email |-> {}, password |-> {}]}

SaveUser(id, change) ==
    /\ process = "running"
    /\ now <= MaxTime
    /\ \E user \in users :
         /\ user.id = id
         /\ LET set == [username |-> user.username,
                        email    |-> IF change.email = {} THEN user.email
                                     ELSE CHOOSE e \in change.email : TRUE,
                        password |-> IF change.password = {} THEN user.password
                                     ELSE CHOOSE p \in change.password : TRUE]
                changedEmail == set.email # user.email
                changedPassword == set.password # user.password
                errors == (IF changedEmail THEN EmailErrors(set.email) ELSE <<>>)
                          \o (IF changedPassword THEN PasswordErrors(set.password)
                              ELSE <<>>)
                hashed == beforeUpdate(set, changedPassword, genSalt(now))
                saved == [user EXCEPT !.email = hashed.email,
                                      !.password = hashed.password,
                                      !.updatedAt = now]
            IN  /\ changedEmail \/ changedPassword
                /\ errors = <<>>
                /\ ~(changedEmail /\ \E w \in users : w.email = set.email)
                /\ users' = (users \ {user}) \cup {saved}
                /\ now' = now + 1
                /\ plainOf' = IF changedPassword
                              THEN [plainOf EXCEPT ![id] = set.password]
                              ELSE plainOf
    /\ reqs' = Released
    /\ UNCHANGED <<nextId, process, destroyed, checks>>

(***************************************************************************)
(* The checks applied to the values of a form: the two of the server that  *)
(* take a username and a password, and the two of the browser              *)
(***************************************************************************)
InitChecks ==
    /\ users = {}
    /\ nextId = 1
    /\ now = 1
    /\ reqs = [r \in Slots |-> Idle]
    /\ process = "running"
    /\ plainOf = <<>>
    /\ destroyed = {}
    /\ \E input \in CheckInputs :
           checks = [NoChecks EXCEPT !.username = input.username,
                                     !.password = input.password]

ApplyValidateUsername ==
    /\ checks.validateUsername = {}
    /\ checks' = [checks EXCEPT
                     !.validateUsername = {validateUsername(Str(checks.username))}]
    /\ UNCHANGED <<users, nextId, now, reqs, process, plainOf, destroyed>>

ApplyValidatePassword ==
    /\ checks.validatePassword = {}
    /\ checks' = [checks EXCEPT
                     !.validatePassword = {validatePassword(Str(checks.password))}]
    /\ UNCHANGED <<users, nextId, now, reqs, process, plainOf, destroyed>>

\* an input event of the username field
InputUsername ==
    /\ checks.fieldUsername = {}
    /\ checks' = [checks EXCEPT
                     !.fieldUsername = {validateField("username", checks.username)}]
    /\ UNCHANGED <<users, nextId, now, reqs, process, plainOf, destroyed>>

\* an input event of the password field
InputPassword ==
    /\ checks.fieldPassword = {}
    /\ checks' = [checks EXCEPT
                     !.fieldPassword = {validateField("password", checks.password)}]
    /\ UNCHANGED <<users, nextId, now, reqs, process, plainOf, destroyed>>

\* the form is submitted
SubmitForm ==
    /\ checks.validateForm = {}
    /\ checks' = [checks EXCEPT
                     !.validateForm = {validateForm(checks.username, checks.password)}]
    /\ UNCHANGED <<users, nextId, now, reqs, process, plainOf, destroyed>>

(***************************************************************************)
(* Specification                                                           *)
(***************************************************************************)
Next ==
    \E r \in Slots :
        \/ \E body \in RegisterBodies : Register(r, body)
        \/ RegisterCreate(r)
        \/ ListUsers(r)
        \/ \E body \in LoginBodies : Login(r, body)
        \/ \E body \in DeleteBodies : Delete(r, body)
        \/ DeleteDestroy(r)
        \/ Health(r)
        \/ HealthSettle(r)

Spec == Init /\ [][Next]_vars

\* the server handling one request at a time, and the rows saved again
\* through the model
NextUser ==
    \/ Next /\ \A r \in Slots \ {1} : reqs'[r] = Idle
    \/ \E id \in 1..MaxId, change \in SaveChanges : SaveUser(id, change)

SpecUser == Init /\ [][NextUser]_vars

\* the checks applied to the values of a form, in any order
NextChecks ==
    \/ ApplyValidateUsername
    \/ ApplyValidatePassword
    \/ InputUsername
    \/ InputPassword
    \/ SubmitForm

SpecChecks == InitChecks /\ [][NextChecks]_vars

(***************************************************************************)
(* Properties                                                              *)
(***************************************************************************)
Done(r) == reqs[r].pc = "done"

Finished(r, kind) == reqs[r].kind = kind /\ Done(r)

\* C1: no two rows of the users table have the same username, and no two
\* have the same email, whatever requests were made and however they
\* interleaved.
C1_UniqueUsernameAndEmail ==
    \A u, w \in users :
        (u.username = w.username \/ u.email = w.email \/ u.id = w.id) => u = w

\* a registration lost the race: its lookup found nothing, its INSERT hit the index
C1_Witness ==
    \E r \in Slots :
        /\ Finished(r, "register")
        /\ reqs[r].branch = "SequelizeUniqueConstraintError"
        /\ users # {}

\* C2: between the uniqueness lookup of a registration and its insert, no
\* write of another request to the users table takes effect.
C2_NoWriteBetweenLookupAndInsert ==
    [][\A r \in Slots :
          (reqs[r].kind = "register" /\ reqs[r].pc = "create" /\ reqs'[r] = reqs[r])
              => users' = users]_vars

\* C3: a registration whose sanitized username is that of a stored user
\* (its email and password passing the checks, the store answering) ends
\* with 409; the stored row is as it was and no row was added.
C3_DuplicateUsernameConflict ==
    \A r \in Slots :
        (Finished(r, "register") /\ reqs[r].pre # {} /\ ~reqs[r].failed)
            => /\ reqs[r].resp.status = 409
               /\ reqs[r].resp.users = <<>>
               /\ reqs[r].pre \subseteq users
               /\ ByUsername(users, sanitizedUsername(reqs[r].body)) = reqs[r].pre

\* " bob " is registered while bob is stored
C3_Witness ==
    \E r \in Slots :
        /\ Finished(r, "register")
        /\ reqs[r].body.username = Str(bobPadded)
        /\ reqs[r].pre # {}
        /\ reqs[r].resp.status = 409

\* C4: while the user registered with username u and password p is stored,
\* a login with u and p ends with 200 and the id of that user, and a login
\* with u and any other string ends with 401.
C4_LoginRoundTrip ==
    \A r \in Slots :
        (/\ Finished(r, "login")
         /\ ~reqs[r].failed
         /\ IsString(reqs[r].body.username)
         /\ IsString(reqs[r].body.password)
         /\ ByUsername(users, loginUsername(reqs[r].body)) # {})
            => LET user == CHOOSE u \in ByUsername(users, loginUsername(reqs[r].body)) : TRUE
               IN  IF reqs[r].body.password.v = plainOf[user.id]
                   THEN /\ reqs[r].resp.status = 200
                        /\ reqs[r].resp.users[1].id = user.id
                   ELSE reqs[r].resp.status = 401

\* what holds of the login: the password the user registered with is
\* accepted, and a string that is not empty and differs from it within the
\* first 72 bytes is answered with 401
LoginRoundTripWithin72Bytes ==
    \A r \in Slots :
        (/\ Finished(r, "login")
         /\ ~reqs[r].failed
         /\ IsString(reqs[r].body.username)
         /\ IsString(reqs[r].body.password)
         /\ ByUsername(users, loginUsername(reqs[r].body)) # {})
            => LET user == CHOOSE u \in ByUsername(users, loginUsername(reqs[r].body)) : TRUE
                   given == reqs[r].body.password.v
               IN  /\ given = plainOf[user.id]
                       => /\ reqs[r].resp.status = 200
                          /\ reqs[r].resp.users[1].id = user.id
                   /\ (given # <<>> /\ Take(given, BcryptMaxBytes)
                                          # Take(plainOf[user.id], BcryptMaxBytes))
                       => reqs[r].resp.status = 401

C6_PasswordsStoredHashed ==
    \A u \in users :
        /\ IsBcryptHash(u.password)
        /\ u.password # plainOf[u.id]
        /\ u.password = bcryptHash(plainOf[u.id], u.password[2])

\* one row saved with a new email and its password as it was, another
\* state has a row saved with a new password
C6_Witness ==
    \E u \in users :
        /\ u.updatedAt > u.createdAt
        /\ u.username = amy
        /\ u.email = mailC
        /\ plainOf[u.id] = pwLong

PublicFields == {"id", "username", "email", "createdAt", "updatedAt"}

\* C7: the user objects of a successful list, register, login or delete
\* response carry public fields only, never the password or its hash.
C7_NoPasswordInResponses ==
    \A r \in Slots :
        reqs[r].resp.success =>
            \A i \in DOMAIN reqs[r].resp.users :
                /\ DOMAIN reqs[r].resp.users[i] \subseteq PublicFields
                /\ "password" \notin DOMAIN reqs[r].resp.users[i]

\* a list of two stored users
C7_Witness ==
    \E r \in Slots :
        /\ Finished(r, "list")
        /\ reqs[r].resp.success
        /\ Len(reqs[r].resp.users) = 2

\* the step in which the handler of slot r sends its response
Responds(r, kind) ==
    /\ reqs'[r].kind = kind
    /\ reqs'[r].pc = "done"
    /\ reqs'[r] # reqs[r]

\* C8: a delete of an id that has no row ends with 404 and leaves the table
\* as it is; a delete of a stored id ends with 200 and the id and username
\* of the row, which is gone then, and a delete of the same id after it
\* ends with 404.
C8_DeleteNotFound ==
    [][\A r \in Slots :
          (Responds(r, "delete") /\ ~reqs'[r].failed /\ ~userId(reqs'[r].body).nan)
              => /\ reqs'[r].user = {}
                     => reqs'[r].resp.status = 404 /\ users' = users
                 /\ reqs'[r].gone => reqs'[r].resp.status = 404
                 /\ reqs'[r].user # {}
                     => /\ reqs'[r].resp.status = 200
                        /\ \E u \in reqs'[r].user :
                               /\ reqs'[r].resp.users =
                                      <<[id |-> u.id, username |-> u.username]>>
                               /\ u.id = userId(reqs'[r].body).n
                               /\ \A w \in users' : w.id # u.id]_vars

\* the second delete of an id was answered with 404
C8_Witness ==
    \E r \in Slots :
        /\ Finished(r, "delete")
        /\ reqs[r].gone
        /\ reqs[r].resp.status = 404

\* C9: a register request that fails a check of the server, and a login
\* request with a missing field, ends with 400 and has issued no operation
\* on the store.
C9_ValidationBeforeStore ==
    \A r \in Slots :
        /\ (/\ Finished(r, "register")
            /\ \/ ~validateUsername(reqs[r].body.username).valid
               \/ ~validateEmail(reqs[r].body.email).valid
               \/ ~validatePassword(reqs[r].body.password).valid)
               => reqs[r].resp.status = 400 /\ reqs[r].ops = 0
        /\ (/\ Finished(r, "login")
            /\ \/ ~Truthy(reqs[r].body.username)
               \/ ~Truthy(reqs[r].body.password))
               => reqs[r].resp.status = 400 /\ reqs[r].ops = 0

\* a registration whose password fails the last of the three checks
C9_Witness ==
    \E r \in Slots :
        /\ Finished(r, "register")
        /\ reqs[r].body.password = Str(pwWeak)
        /\ reqs[r].resp.status = 400
        /\ users # {}

\* C10: a failure of the store while a request is handled is answered with
\* an error response by the handler, and the process keeps running.
C10_StoreFailuresHandled ==
    /\ process = "running"
    /\ \A r \in Slots :
           reqs[r].failed => Done(r) /\ reqs[r].resp.status = 500

\* C11: the set of stored rows changes only in a step in which a register
\* request is answered with 201, which adds one row of a new id, or in
\* which a delete request is answered with 200, which removes the row of
\* its id and no other; a step that answers a list, login or health request,
\* or answers any request with 400, 404, 409 or 500, leaves the rows as they
\* are; so does a step that answers nothing.
C11_RowsChangeOnlyBySuccess ==
    [][/\ users' # users =>
            \E r \in Slots :
                \/ /\ Responds(r, "register")
                   /\ reqs'[r].resp.status = 201
                   /\ \E u \in users' \ users :
                          /\ users' = users \cup {u}
                          /\ \A w \in users : w.id # u.id
                          /\ reqs'[r].resp.users[1].id = u.id
                \/ /\ Responds(r, "delete")
                   /\ reqs'[r].resp.status = 200
                   /\ users' = { u \in users : u.id # userId(reqs'[r].body).n }
       /\ \A r \in Slots :
              (/\ reqs'[r].pc = "done"
               /\ reqs'[r] # reqs[r]
               /\ \/ reqs'[r].kind \in {"list", "login", "health"}
                  \/ reqs'[r].resp.status \in {400, 404, 409, 500})
                  => users' = users]_vars

\* a delete was answered with 200 while the row of another registration stays
C11_Witness ==
    \E r \in Slots :
        /\ Finished(r, "delete")
        /\ reqs[r].resp.status = 200
        /\ users # {}
        /\ destroyed # {}

\* the first rule of the password check that a string violates, in the
\* order required, minimum length, maximum length, lowercase, uppercase,
\* digit, special character; "none" when it violates none of them
FirstViolated(password, minLen, special) ==
    IF password = <<>> THEN "required"
    ELSE IF Len(password) < minLen THEN "minimum length"
    ELSE IF Len(password) > FormPasswordMaxLen THEN "maximum length"
    ELSE IF ~\E i \in DOMAIN password : password[i] \in Lower THEN "lowercase"
    ELSE IF ~\E i \in DOMAIN password : password[i] \in Upper THEN "uppercase"
    ELSE IF ~\E i \in DOMAIN password : password[i] \in Digit THEN "digit"
    ELSE IF ~\E i \in DOMAIN password : password[i] \in special THEN "special character"
    ELSE "none"

\* the rules a message of a password check reports as violated
Reported(message) ==
    CASE message = "Password is required" -> {"required"}
      [] message \in {"Password must be at least 8 characters long",
                      "Password must be at least 6 characters long"}
             -> {"minimum length"}
      [] message = "Password cannot exceed 100 characters" -> {"maximum length"}
      [] message = "Password must contain at least one lowercase letter"
             -> {"lowercase"}
      [] message = "Password must contain at least one uppercase letter"
             -> {"uppercase"}
      [] message = "Password must contain at least one number" -> {"digit"}
      [] message = "Password must contain at least one special character"
             -> {"special character"}
      [] message = "Password must include uppercase, lowercase, number, and special character"
             -> {"uppercase", "lowercase", "digit", "special character"}
      [] message = "Password cannot contain three identical characters in a row"
             -> {"tripled"}
      [] OTHER -> {}

\* C12: for every string that violates a rule of the password check
\* (required, minimum length, maximum length of 100, lowercase, uppercase,
\* digit, special character, in this order), the check of the server and the
\* check of the browser field each reject it with one message, which reports
\* the first violated rule and no other.
C12_FirstViolatedRuleAlone ==
    /\ \A res \in checks.validatePassword :
           LET first == FirstViolated(checks.password, PasswordMinLen, ServerSpecial)
           IN  first # "none" => ~res.valid /\ Reported(res.message) = {first}
    /\ \A res \in checks.fieldPassword :
           LET first == FirstViolated(checks.password, FormPasswordMinLen, FormSpecial)
           IN  first # "none" => ~res.isValid /\ Reported(res.errorMessage) = {first}

\* what holds of the password checks: validateForm reports the first
\* violated rule alone, for every string; validatePassword of the server
\* does for a string that is empty or shorter than 8, and validateField for
\* a string that is not empty
FirstViolatedWhereReported ==
    /\ \A res \in checks.validateForm :
           LET first == FirstViolated(checks.password, FormPasswordMinLen, FormSpecial)
               errors == FormPasswordErrors(checks.password)
           IN  first # "none" =>
                   /\ ~res.isValid
                   /\ Len(errors) = 1
                   /\ Reported(errors[1]) = {first}
                   /\ errors[1] = res.errorMessages[Len(res.errorMessages)]
    /\ \A res \in checks.validatePassword :
           LET first == FirstViolated(checks.password, PasswordMinLen, ServerSpecial)
           IN  first \in {"required", "minimum length"} =>
                   ~res.valid /\ Reported(res.message) = {first}
    /\ \A res \in checks.fieldPassword :
           LET first == FirstViolated(checks.password, FormPasswordMinLen, FormSpecial)
           IN  first \notin {"none", "required"} =>
                   ~res.isValid /\ Reported(res.errorMessage) = {first}

\* C13: the password check of the server rejects every string shorter than
\* its minimum length and every string longer than 100 characters, so that
\* no password longer than 100 characters passes the check and the field
\* validation of the store.
C13_PasswordLengthBounds ==
    \A res \in checks.validatePassword :
        /\ (\/ Len(checks.password) < PasswordMinLen
            \/ Len(checks.password) > FormPasswordMaxLen) => ~res.valid
        /\ (res.valid /\ PasswordErrors(res.value) = <<>>)
               => Len(res.value) <= FormPasswordMaxLen

\* what holds of the lengths: the check of the server rejects every string
\* shorter than 8, and the checks of the browser reject every string that
\* is not empty and is shorter than 6 or longer than 100
PasswordLengthBoundsWhereChecked ==
    /\ \A res \in checks.validatePassword :
           Len(checks.password) < PasswordMinLen => ~res.valid
    /\ \A res \in checks.fieldPassword :
           (/\ checks.password # <<>>
            /\ \/ Len(checks.password) < FormPasswordMinLen
               \/ Len(checks.password) > FormPasswordMaxLen) => ~res.isValid
    /\ \A res \in checks.validateForm :
           (\/ Len(checks.password) < FormPasswordMinLen
            \/ Len(checks.password) > FormPasswordMaxLen) => ~res.isValid

\* C14: every string that is shorter than 3 characters, or is after
\* trimming, the empty string included, is rejected by the username check of
\* the server with the message about the length, whatever its characters.
C14_ShortUsernameLengthMessage ==
    \A res \in checks.validateUsername :
        Len(Trim(checks.username)) < UsernameMinLen
            => /\ ~res.valid
               /\ res.message = "Username must be 3-50 characters long"

\* what holds of short usernames: each is rejected, the empty string with
\* the message of a missing username, every other with the message about
\* the length
ShortUsernameRejected ==
    \A res \in checks.validateUsername :
        Len(Trim(checks.username)) < UsernameMinLen
            => /\ ~res.valid
               /\ res.message = IF checks.username = <<>>
                                THEN "Username is required"
                                ELSE "Username must be 3-50 characters long"

\* C15: a registration whose username passes the username check of the
\* server, whose email and password pass the checks of the server and the
\* field validation of the store, and which meets no duplicate and no store
\* failure, ends with 201.
C15_AcceptedUsernameRegisters ==
    \A r \in Slots :
        (/\ Finished(r, "register")
         /\ validateUsername(reqs[r].body.username).valid
         /\ validateEmail(reqs[r].body.email).valid
         /\ validatePassword(reqs[r].body.password).valid
         /\ EmailErrors(sanitizedEmail(reqs[r].body)) = <<>>
         /\ PasswordErrors(validatePassword(reqs[r].body.password).value) = <<>>
         /\ ~reqs[r].failed
         /\ reqs[r].resp.status # 409)
            => reqs[r].resp.status = 201

\* what holds of accepted usernames: such a registration ends with 201 when
\* its username holds letters and digits only, and with 400 otherwise
AcceptedAlphanumericUsernameRegisters ==
    \A r \in Slots :
        (/\ Finished(r, "register")
         /\ validateUsername(reqs[r].body.username).valid
         /\ validateEmail(reqs[r].body.email).valid
         /\ validatePassword(reqs[r].body.password).valid
         /\ EmailErrors(sanitizedEmail(reqs[r].body)) = <<>>
         /\ PasswordErrors(validatePassword(reqs[r].body.password).value) = <<>>
         /\ ~reqs[r].failed
         /\ reqs[r].resp.status # 409)
            => reqs[r].resp.status =
                   IF isAlphanumeric(sanitizedUsername(reqs[r].body)) THEN 201
                   ELSE 400

\* the verdict and the reason validateForm gave for one field
FormVerdict(res, fieldName) ==
    IF fieldName = "username"
    THEN [isValid |-> res.usernameClass # "error",
          reason  |-> IF res.usernameClass = "error" THEN res.errorMessages[1]
                      ELSE ""]
    ELSE [isValid |-> res.passwordClass # "error",
          reason  |-> IF res.passwordClass = "error"
                      THEN res.errorMessages[Len(res.errorMessages)]
                      ELSE ""]

\* C16: validateField and validateForm give the same verdict and the same
\* reason for the value of the username field and for the value of the
\* password field, whatever the value: empty, or with whitespace around it.
C16_FieldAndFormAgree ==
    \A form \in checks.validateForm :
        /\ \A field \in checks.fieldUsername :
               /\ field.isValid = FormVerdict(form, "username").isValid
               /\ field.errorMessage = FormVerdict(form, "username").reason
        /\ \A field \in checks.fieldPassword :
               /\ field.isValid = FormVerdict(form, "password").isValid
               /\ field.errorMessage = FormVerdict(form, "password").reason

\* what holds of the two checks: they agree on every password that is not
\* empty, and on every username that is not empty and has no whitespace at
\* its ends
FieldAndFormAgreeOnTrimmedValues ==
    \A form \in checks.validateForm :
        /\ \A field \in checks.fieldUsername :
               (checks.username # <<>> /\ Trim(checks.username) = checks.username)
                   => /\ field.isValid = FormVerdict(form, "username").isValid
                      /\ field.errorMessage = FormVerdict(form, "username").reason
        /\ \A field \in checks.fieldPassword :
               checks.password # <<>>
                   => /\ field.isValid = FormVerdict(form, "password").isValid
                      /\ field.errorMessage = FormVerdict(form, "password").reason

====
